---------------------------- MODULE Spec2Model ----------------------------
(***************************************************************************)
(* A model of the code-indexing engine of rust_engine/src/lib.rs: the      *)
(* seven queries (search, generate_repo_map, get_symbol_info,              *)
(* get_imports_exports, build_dependency_graph, resolve_symbol,            *)
(* find_references) over a workspace on disk.                              *)
(*                                                                         *)
(* Strings are sequences of one-character strings, so that the byte-level  *)
(* operations of the code (split on '{', trim, ends_with, byte offsets,    *)
(* rows and columns) are computed and not assumed.  An Option is a         *)
(* sequence of length 0 (None) or 1 (Some).  A Vec is a sequence.          *)
(*                                                                         *)
(* The parser (tree-sitter) and the fuzzy matcher (SkimMatcherV2) are      *)
(* libraries outside the repository.  The parser is modelled by its        *)
(* output on a table of sample statements; the matcher's score is a        *)
(* nondeterministic choice.                                                *)
(***************************************************************************)
EXTENDS Integers, Sequences, FiniteSets, TLC

VARIABLES
    disk,     \* the file system: entries in the directory walker's native order
    call,     \* the query being served and its arguments
    ret,      \* the value the query returned
    todo,     \* search: declarations the walk has reached and not yet scored
    results   \* search: the results vector as pushed, before the sort

vars == <<disk, call, ret, todo, results>>

---------------------------------------------------------------------------
(* Bounds of the model *)

\* a source file holds at most MaxStmts top-level statements
MaxStmts == 2
\* search: at most MaxRejected visited declarations score 60 or below (or None)
MaxRejected == 1
\* search: at most MaxHigh visited declarations get the higher score
MaxHigh == 1

---------------------------------------------------------------------------
(* Option and string helpers (Rust std) *)

None == <<>>
Some(x) == <<x>>

Min(S) == CHOOSE x \in S : \A y \in S : x <= y
Max(S) == CHOOSE x \in S : \A y \in S : x >= y

\* str::starts_with
StartsWith(s, p) == Len(s) >= Len(p) /\ SubSeq(s, 1, Len(p)) = p

\* str::ends_with
EndsWith(s, p) == Len(s) >= Len(p) /\ SubSeq(s, Len(s) - Len(p) + 1, Len(s)) = p

\* char::is_whitespace on the characters of the model
IsSpace(c) == c \in {" ", "\n", "\t", "\r"}

\* str::trim_matches(pred): strip every leading and trailing character in cs
TrimMatches(s, cs) ==
    LET keep == {i \in 1..Len(s) : s[i] \notin cs}
    IN  IF keep = {} THEN <<>> ELSE SubSeq(s, Min(keep), Max(keep))

\* str::trim
Trim(s) == TrimMatches(s, {" ", "\n", "\t", "\r"})

\* s.split(c).next(): the text before the first c, all of s when c is absent
SplitFirst(s, c) ==
    LET at == {i \in 1..Len(s) : s[i] = c}
    IN  IF at = {} THEN s ELSE SubSeq(s, 1, Min(at) - 1)

\* str::lines: split at "\n" (a final newline ends the last line), "\r" stripped
RECURSIVE Lines(_)
Lines(s) ==
    IF s = <<>> THEN <<>>
    ELSE LET at == {i \in 1..Len(s) : s[i] = "\n"}
             cut == IF at = {} THEN Len(s) + 1 ELSE Min(at)
             line == SubSeq(s, 1, cut - 1)
             bare == IF line # <<>> /\ line[Len(line)] = "\r"
                     THEN SubSeq(line, 1, Len(line) - 1) ELSE line
         IN  <<bare>> \o Lines(SubSeq(s, cut + 1, Len(s)))

\* "  ".repeat(depth)
RECURSIVE Indent(_)
Indent(depth) == IF depth = 0 THEN <<>> ELSE <<" ", " ">> \o Indent(depth - 1)

---------------------------------------------------------------------------
(* Paths (std::path) *)

\* the components of a path: split at "/", "." and empty components dropped
RECURSIVE Components(_)
Components(p) ==
    IF p = <<>> THEN <<>>
    ELSE LET at == {i \in 1..Len(p) : p[i] = "/"}
             cut == IF at = {} THEN Len(p) + 1 ELSE Min(at)
             head == SubSeq(p, 1, cut - 1)
             rest == Components(SubSeq(p, cut + 1, Len(p)))
         IN  IF head = <<>> \/ head = <<".">> THEN rest ELSE <<head>> \o rest

\* the last component's text (DirEntry::file_name, Path::file_name)
FileName(p) ==
    LET at == {i \in 1..Len(p) : p[i] = "/"}
    IN  IF at = {} THEN p ELSE SubSeq(p, Max(at) + 1, Len(p))

\* Path::parent(..).unwrap_or("."): the path without its last component
ParentDir(p) ==
    LET at == {i \in 1..Len(p) : p[i] = "/"}
    IN  IF p = <<>> THEN <<".">>
        ELSE IF at = {} THEN <<>> ELSE SubSeq(p, 1, Max(at) - 1)

\* Path::join: an absolute right side replaces the left
PathJoin(dir, rel) ==
    IF StartsWith(rel, <<"/">>) \/ dir = <<>> THEN rel
    ELSE IF EndsWith(dir, <<"/">>) THEN dir \o rel
    ELSE dir \o <<"/">> \o rel

\* Path::with_extension(ext): the extension of the file name (the text after
\* its last '.', unless the name only starts with one) is REPLACED by ext;
\* a file name without extension gets "." ext appended
WithExtension(p, ext) ==
    LET name == FileName(p)
        dots == {i \in 2..Len(name) : name[i] = "."}
        stem == IF dots = {} THEN name ELSE SubSeq(name, 1, Max(dots) - 1)
    IN  SubSeq(p, 1, Len(p) - Len(name)) \o stem \o <<".">> \o ext

---------------------------------------------------------------------------
(* Parse trees (tree-sitter).  A tree is the source text and its nodes in  *)
(* pre-order; a node has its kind, its parent's index (0 for the root) and *)
(* its byte range [s, e) in the source.                                    *)

Nd(kind, parent, s, e) == [kind |-> kind, parent |-> parent, s |-> s, e |-> e]

\* What the parser answers for each sample statement: its text, its nodes
\* (parent 0 is the file's root node, offsets are relative to the statement),
\* and, as ground truth for the claims, the named functions it declares with
\* the row of the declaration inside the statement.
ParseTable ==
    [ fnF |->   \* function F() {}
        [ text |-> <<"f", "u", "n", "c", "t", "i", "o", "n", " ", "F", "(", ")", " ", "{", "}">>,
          fns |-> <<[name |-> <<"F">>, row |-> 0]>>,
          nodes |-> <<
            Nd("function_declaration", 0, 0, 15),
            Nd("function", 1, 0, 8),
            Nd("identifier", 1, 9, 10),
            Nd("formal_parameters", 1, 10, 12),
            Nd("(", 4, 10, 11),
            Nd(")", 4, 11, 12),
            Nd("statement_block", 1, 13, 15),
            Nd("{", 7, 13, 14),
            Nd("}", 7, 14, 15)
          >> ],
      fnG |->   \* function G() {}
        [ text |-> <<"f", "u", "n", "c", "t", "i", "o", "n", " ", "G", "(", ")", " ", "{", "}">>,
          fns |-> <<[name |-> <<"G">>, row |-> 0]>>,
          nodes |-> <<
            Nd("function_declaration", 0, 0, 15),
            Nd("function", 1, 0, 8),
            Nd("identifier", 1, 9, 10),
            Nd("formal_parameters", 1, 10, 12),
            Nd("(", 4, 10, 11),
            Nd(")", 4, 11, 12),
            Nd("statement_block", 1, 13, 15),
            Nd("{", 7, 13, 14),
            Nd("}", 7, 14, 15)
          >> ],
      clsF |->   \* class F {\n  F() {}\n}
        [ text |-> <<"c", "l", "a", "s", "s", " ", "F", " ", "{", "\n", " ", " ", "F", "(", ")", " ", "{", "}", "\n", "}">>,
          fns |-> <<>>,
          nodes |-> <<
            Nd("class_declaration", 0, 0, 20),
            Nd("class", 1, 0, 5),
            Nd("type_identifier", 1, 6, 7),
            Nd("class_body", 1, 8, 20),
            Nd("{", 4, 8, 9),
            Nd("method_definition", 4, 12, 18),
            Nd("property_identifier", 6, 12, 13),
            Nd("formal_parameters", 6, 13, 15),
            Nd("(", 8, 13, 14),
            Nd(")", 8, 14, 15),
            Nd("statement_block", 6, 16, 18),
            Nd("{", 11, 16, 17),
            Nd("}", 11, 17, 18),
            Nd("}", 4, 19, 20)
          >> ],
      ifcF |->   \* interface F { F: G }
        [ text |-> <<"i", "n", "t", "e", "r", "f", "a", "c", "e", " ", "F", " ", "{", " ", "F", ":", " ", "G", " ", "}">>,
          fns |-> <<>>,
          nodes |-> <<
            Nd("interface_declaration", 0, 0, 20),
            Nd("interface", 1, 0, 9),
            Nd("type_identifier", 1, 10, 11),
            Nd("interface_body", 1, 12, 20),
            Nd("{", 4, 12, 13),
            Nd("property_signature", 4, 14, 18),
            Nd("property_identifier", 6, 14, 15),
            Nd("type_annotation", 6, 15, 18),
            Nd(":", 8, 15, 16),
            Nd("type_identifier", 8, 17, 18),
            Nd("}", 4, 19, 20)
          >> ],
      constF |->   \* const F = 1;
        [ text |-> <<"c", "o", "n", "s", "t", " ", "F", " ", "=", " ", "1", ";">>,
          fns |-> <<>>,
          nodes |-> <<
            Nd("lexical_declaration", 0, 0, 12),
            Nd("const", 1, 0, 5),
            Nd("variable_declarator", 1, 6, 11),
            Nd("identifier", 3, 6, 7),
            Nd("=", 3, 8, 9),
            Nd("number", 3, 10, 11),
            Nd(";", 1, 11, 12)
          >> ],
      destrF |->   \* const {a} = F;
        [ text |-> <<"c", "o", "n", "s", "t", " ", "{", "a", "}", " ", "=", " ", "F", ";">>,
          fns |-> <<>>,
          nodes |-> <<
            Nd("lexical_declaration", 0, 0, 14),
            Nd("const", 1, 0, 5),
            Nd("variable_declarator", 1, 6, 13),
            Nd("object_pattern", 3, 6, 9),
            Nd("{", 4, 6, 7),
            Nd("shorthand_property_identifier_pattern", 4, 7, 8),
            Nd("}", 4, 8, 9),
            Nd("=", 3, 10, 11),
            Nd("identifier", 3, 12, 13),
            Nd(";", 1, 13, 14)
          >> ],
      callF |->   \*   F();
        [ text |-> <<" ", " ", "F", "(", ")", ";">>,
          fns |-> <<>>,
          nodes |-> <<
            Nd("expression_statement", 0, 2, 6),
            Nd("call_expression", 1, 2, 5),
            Nd("identifier", 2, 2, 3),
            Nd("arguments", 2, 3, 5),
            Nd("(", 4, 3, 4),
            Nd(")", 4, 4, 5),
            Nd(";", 1, 5, 6)
          >> ],
      ifFn |->   \* if (G) { function F() {} }
        [ text |-> <<"i", "f", " ", "(", "G", ")", " ", "{", " ", "f", "u", "n", "c", "t", "i", "o", "n", " ", "F", "(", ")", " ", "{", "}", " ", "}">>,
          fns |-> <<[name |-> <<"F">>, row |-> 0]>>,
          nodes |-> <<
            Nd("if_statement", 0, 0, 26),
            Nd("if", 1, 0, 2),
            Nd("parenthesized_expression", 1, 3, 6),
            Nd("(", 3, 3, 4),
            Nd("identifier", 3, 4, 5),
            Nd(")", 3, 5, 6),
            Nd("statement_block", 1, 7, 26),
            Nd("{", 7, 7, 8),
            Nd("function_declaration", 7, 9, 24),
            Nd("function", 9, 9, 17),
            Nd("identifier", 9, 18, 19),
            Nd("formal_parameters", 9, 19, 21),
            Nd("(", 12, 19, 20),
            Nd(")", 12, 20, 21),
            Nd("statement_block", 9, 22, 24),
            Nd("{", 15, 22, 23),
            Nd("}", 15, 23, 24),
            Nd("}", 7, 25, 26)
          >> ],
      impDef |->   \* import F from './b';
        [ text |-> <<"i", "m", "p", "o", "r", "t", " ", "F", " ", "f", "r", "o", "m", " ", "'", ".", "/", "b", "'", ";">>,
          fns |-> <<>>,
          nodes |-> <<
            Nd("import_statement", 0, 0, 20),
            Nd("import", 1, 0, 6),
            Nd("import_clause", 1, 7, 8),
            Nd("identifier", 3, 7, 8),
            Nd("from", 1, 9, 13),
            Nd("string", 1, 14, 19),
            Nd("'", 6, 14, 15),
            Nd("string_fragment", 6, 15, 18),
            Nd("'", 6, 18, 19),
            Nd(";", 1, 19, 20)
          >> ],
      impNs |->   \* import * as F from "u";
        [ text |-> <<"i", "m", "p", "o", "r", "t", " ", "*", " ", "a", "s", " ", "F", " ", "f", "r", "o", "m", " ", "\"", "u", "\"", ";">>,
          fns |-> <<>>,
          nodes |-> <<
            Nd("import_statement", 0, 0, 23),
            Nd("import", 1, 0, 6),
            Nd("import_clause", 1, 7, 13),
            Nd("namespace_import", 3, 7, 13),
            Nd("*", 4, 7, 8),
            Nd("as", 4, 9, 11),
            Nd("identifier", 4, 12, 13),
            Nd("from", 1, 14, 18),
            Nd("string", 1, 19, 22),
            Nd("\"", 9, 19, 20),
            Nd("string_fragment", 9, 20, 21),
            Nd("\"", 9, 21, 22),
            Nd(";", 1, 22, 23)
          >> ],
      impDefNs |->   \* import G, * as F from 'u';
        [ text |-> <<"i", "m", "p", "o", "r", "t", " ", "G", ",", " ", "*", " ", "a", "s", " ", "F", " ", "f", "r", "o", "m", " ", "'", "u", "'", ";">>,
          fns |-> <<>>,
          nodes |-> <<
            Nd("import_statement", 0, 0, 26),
            Nd("import", 1, 0, 6),
            Nd("import_clause", 1, 7, 16),
            Nd("identifier", 3, 7, 8),
            Nd(",", 3, 8, 9),
            Nd("namespace_import", 3, 10, 16),
            Nd("*", 6, 10, 11),
            Nd("as", 6, 12, 14),
            Nd("identifier", 6, 15, 16),
            Nd("from", 1, 17, 21),
            Nd("string", 1, 22, 25),
            Nd("'", 11, 22, 23),
            Nd("string_fragment", 11, 23, 24),
            Nd("'", 11, 24, 25),
            Nd(";", 1, 25, 26)
          >> ],
      impNamed |->   \* import { F, G as H } from './b';
        [ text |-> <<"i", "m", "p", "o", "r", "t", " ", "{", " ", "F", ",", " ", "G", " ", "a", "s", " ", "H", " ", "}", " ", "f", "r", "o", "m", " ", "'", ".", "/", "b", "'", ";">>,
          fns |-> <<>>,
          nodes |-> <<
            Nd("import_statement", 0, 0, 32),
            Nd("import", 1, 0, 6),
            Nd("import_clause", 1, 7, 20),
            Nd("named_imports", 3, 7, 20),
            Nd("{", 4, 7, 8),
            Nd("import_specifier", 4, 9, 10),
            Nd("identifier", 6, 9, 10),
            Nd(",", 4, 10, 11),
            Nd("import_specifier", 4, 12, 18),
            Nd("identifier", 9, 12, 13),
            Nd("as", 9, 14, 16),
            Nd("identifier", 9, 17, 18),
            Nd("}", 4, 19, 20),
            Nd("from", 1, 21, 25),
            Nd("string", 1, 26, 31),
            Nd("'", 15, 26, 27),
            Nd("string_fragment", 15, 27, 30),
            Nd("'", 15, 30, 31),
            Nd(";", 1, 31, 32)
          >> ],
      impDefNamed |->   \* import G, { F } from 'fs';
        [ text |-> <<"i", "m", "p", "o", "r", "t", " ", "G", ",", " ", "{", " ", "F", " ", "}", " ", "f", "r", "o", "m", " ", "'", "f", "s", "'", ";">>,
          fns |-> <<>>,
          nodes |-> <<
            Nd("import_statement", 0, 0, 26),
            Nd("import", 1, 0, 6),
            Nd("import_clause", 1, 7, 15),
            Nd("identifier", 3, 7, 8),
            Nd(",", 3, 8, 9),
            Nd("named_imports", 3, 10, 15),
            Nd("{", 6, 10, 11),
            Nd("import_specifier", 6, 12, 13),
            Nd("identifier", 8, 12, 13),
            Nd("}", 6, 14, 15),
            Nd("from", 1, 16, 20),
            Nd("string", 1, 21, 25),
            Nd("'", 12, 21, 22),
            Nd("string_fragment", 12, 22, 24),
            Nd("'", 12, 24, 25),
            Nd(";", 1, 25, 26)
          >> ],
      impSide |->   \* import './b';
        [ text |-> <<"i", "m", "p", "o", "r", "t", " ", "'", ".", "/", "b", "'", ";">>,
          fns |-> <<>>,
          nodes |-> <<
            Nd("import_statement", 0, 0, 13),
            Nd("import", 1, 0, 6),
            Nd("string", 1, 7, 12),
            Nd("'", 3, 7, 8),
            Nd("string_fragment", 3, 8, 11),
            Nd("'", 3, 11, 12),
            Nd(";", 1, 12, 13)
          >> ],
      impEmpty |->   \* import F from '';
        [ text |-> <<"i", "m", "p", "o", "r", "t", " ", "F", " ", "f", "r", "o", "m", " ", "'", "'", ";">>,
          fns |-> <<>>,
          nodes |-> <<
            Nd("import_statement", 0, 0, 17),
            Nd("import", 1, 0, 6),
            Nd("import_clause", 1, 7, 8),
            Nd("identifier", 3, 7, 8),
            Nd("from", 1, 9, 13),
            Nd("string", 1, 14, 16),
            Nd("'", 6, 14, 15),
            Nd("'", 6, 15, 16),
            Nd(";", 1, 16, 17)
          >> ],
      impDot |->   \* import { F } from './foo.service';
        [ text |-> <<"i", "m", "p", "o", "r", "t", " ", "{", " ", "F", " ", "}", " ", "f", "r", "o", "m", " ", "'", ".", "/", "f", "o", "o", ".", "s", "e", "r", "v", "i", "c", "e", "'", ";">>,
          fns |-> <<>>,
          nodes |-> <<
            Nd("import_statement", 0, 0, 34),
            Nd("import", 1, 0, 6),
            Nd("import_clause", 1, 7, 12),
            Nd("named_imports", 3, 7, 12),
            Nd("{", 4, 7, 8),
            Nd("import_specifier", 4, 9, 10),
            Nd("identifier", 6, 9, 10),
            Nd("}", 4, 11, 12),
            Nd("from", 1, 13, 17),
            Nd("string", 1, 18, 33),
            Nd("'", 10, 18, 19),
            Nd("string_fragment", 10, 19, 32),
            Nd("'", 10, 32, 33),
            Nd(";", 1, 33, 34)
          >> ],
      impDir |->   \* import { F } from './lib';
        [ text |-> <<"i", "m", "p", "o", "r", "t", " ", "{", " ", "F", " ", "}", " ", "f", "r", "o", "m", " ", "'", ".", "/", "l", "i", "b", "'", ";">>,
          fns |-> <<>>,
          nodes |-> <<
            Nd("import_statement", 0, 0, 26),
            Nd("import", 1, 0, 6),
            Nd("import_clause", 1, 7, 12),
            Nd("named_imports", 3, 7, 12),
            Nd("{", 4, 7, 8),
            Nd("import_specifier", 4, 9, 10),
            Nd("identifier", 6, 9, 10),
            Nd("}", 4, 11, 12),
            Nd("from", 1, 13, 17),
            Nd("string", 1, 18, 25),
            Nd("'", 10, 18, 19),
            Nd("string_fragment", 10, 19, 24),
            Nd("'", 10, 24, 25),
            Nd(";", 1, 25, 26)
          >> ],
      expFn |->   \* export function F() {}
        [ text |-> <<"e", "x", "p", "o", "r", "t", " ", "f", "u", "n", "c", "t", "i", "o", "n", " ", "F", "(", ")", " ", "{", "}">>,
          fns |-> <<[name |-> <<"F">>, row |-> 0]>>,
          nodes |-> <<
            Nd("export_statement", 0, 0, 22),
            Nd("export", 1, 0, 6),
            Nd("function_declaration", 1, 7, 22),
            Nd("function", 3, 7, 15),
            Nd("identifier", 3, 16, 17),
            Nd("formal_parameters", 3, 17, 19),
            Nd("(", 6, 17, 18),
            Nd(")", 6, 18, 19),
            Nd("statement_block", 3, 20, 22),
            Nd("{", 9, 20, 21),
            Nd("}", 9, 21, 22)
          >> ],
      expAnonFn |->   \* export default function () {}
        [ text |-> <<"e", "x", "p", "o", "r", "t", " ", "d", "e", "f", "a", "u", "l", "t", " ", "f", "u", "n", "c", "t", "i", "o", "n", " ", "(", ")", " ", "{", "}">>,
          fns |-> <<>>,
          nodes |-> <<
            Nd("export_statement", 0, 0, 29),
            Nd("export", 1, 0, 6),
            Nd("default", 1, 7, 14),
            Nd("function_expression", 1, 15, 29),
            Nd("function", 4, 15, 23),
            Nd("formal_parameters", 4, 24, 26),
            Nd("(", 6, 24, 25),
            Nd(")", 6, 25, 26),
            Nd("statement_block", 4, 27, 29),
            Nd("{", 9, 27, 28),
            Nd("}", 9, 28, 29)
          >> ],
      expAnonCls |->   \* export default class {}
        [ text |-> <<"e", "x", "p", "o", "r", "t", " ", "d", "e", "f", "a", "u", "l", "t", " ", "c", "l", "a", "s", "s", " ", "{", "}">>,
          fns |-> <<>>,
          nodes |-> <<
            Nd("export_statement", 0, 0, 23),
            Nd("export", 1, 0, 6),
            Nd("default", 1, 7, 14),
            Nd("class", 1, 15, 23),
            Nd("class", 4, 15, 20),
            Nd("class_body", 4, 21, 23),
            Nd("{", 6, 21, 22),
            Nd("}", 6, 22, 23)
          >> ],
      expConst2 |->   \* export const F = 1, G = 2;
        [ text |-> <<"e", "x", "p", "o", "r", "t", " ", "c", "o", "n", "s", "t", " ", "F", " ", "=", " ", "1", ",", " ", "G", " ", "=", " ", "2", ";">>,
          fns |-> <<>>,
          nodes |-> <<
            Nd("export_statement", 0, 0, 26),
            Nd("export", 1, 0, 6),
            Nd("lexical_declaration", 1, 7, 26),
            Nd("const", 3, 7, 12),
            Nd("variable_declarator", 3, 13, 18),
            Nd("identifier", 5, 13, 14),
            Nd("=", 5, 15, 16),
            Nd("number", 5, 17, 18),
            Nd(",", 3, 18, 19),
            Nd("variable_declarator", 3, 20, 25),
            Nd("identifier", 10, 20, 21),
            Nd("=", 10, 22, 23),
            Nd("number", 10, 24, 25),
            Nd(";", 3, 25, 26)
          >> ],
      expIfc |->   \* export interface F {}
        [ text |-> <<"e", "x", "p", "o", "r", "t", " ", "i", "n", "t", "e", "r", "f", "a", "c", "e", " ", "F", " ", "{", "}">>,
          fns |-> <<>>,
          nodes |-> <<
            Nd("export_statement", 0, 0, 21),
            Nd("export", 1, 0, 6),
            Nd("interface_declaration", 1, 7, 21),
            Nd("interface", 3, 7, 16),
            Nd("type_identifier", 3, 17, 18),
            Nd("interface_body", 3, 19, 21),
            Nd("{", 6, 19, 20),
            Nd("}", 6, 20, 21)
          >> ],
      expDefCls |->   \* export default class F {}
        [ text |-> <<"e", "x", "p", "o", "r", "t", " ", "d", "e", "f", "a", "u", "l", "t", " ", "c", "l", "a", "s", "s", " ", "F", " ", "{", "}">>,
          fns |-> <<>>,
          nodes |-> <<
            Nd("export_statement", 0, 0, 25),
            Nd("export", 1, 0, 6),
            Nd("default", 1, 7, 14),
            Nd("class_declaration", 1, 15, 25),
            Nd("class", 4, 15, 20),
            Nd("type_identifier", 4, 21, 22),
            Nd("class_body", 4, 23, 25),
            Nd("{", 7, 23, 24),
            Nd("}", 7, 24, 25)
          >> ],
      expDefId |->   \* export default F;
        [ text |-> <<"e", "x", "p", "o", "r", "t", " ", "d", "e", "f", "a", "u", "l", "t", " ", "F", ";">>,
          fns |-> <<>>,
          nodes |-> <<
            Nd("export_statement", 0, 0, 17),
            Nd("export", 1, 0, 6),
            Nd("default", 1, 7, 14),
            Nd("identifier", 1, 15, 16),
            Nd(";", 1, 16, 17)
          >> ],
      expClause |->   \* export { F };
        [ text |-> <<"e", "x", "p", "o", "r", "t", " ", "{", " ", "F", " ", "}", ";">>,
          fns |-> <<>>,
          nodes |-> <<
            Nd("export_statement", 0, 0, 13),
            Nd("export", 1, 0, 6),
            Nd("export_clause", 1, 7, 12),
            Nd("{", 3, 7, 8),
            Nd("export_specifier", 3, 9, 10),
            Nd("identifier", 5, 9, 10),
            Nd("}", 3, 11, 12),
            Nd(";", 1, 12, 13)
          >> ],
      expArr |->   \* export const [a] = [1];
        [ text |-> <<"e", "x", "p", "o", "r", "t", " ", "c", "o", "n", "s", "t", " ", "[", "a", "]", " ", "=", " ", "[", "1", "]", ";">>,
          fns |-> <<>>,
          nodes |-> <<
            Nd("export_statement", 0, 0, 23),
            Nd("export", 1, 0, 6),
            Nd("lexical_declaration", 1, 7, 23),
            Nd("const", 3, 7, 12),
            Nd("variable_declarator", 3, 13, 22),
            Nd("array_pattern", 5, 13, 16),
            Nd("[", 6, 13, 14),
            Nd("identifier", 6, 14, 15),
            Nd("]", 6, 15, 16),
            Nd("=", 5, 17, 18),
            Nd("array", 5, 19, 22),
            Nd("[", 11, 19, 20),
            Nd("number", 11, 20, 21),
            Nd("]", 11, 21, 22),
            Nd(";", 3, 22, 23)
          >> ],
      rsFnF |->   \* fn F() {}
        [ text |-> <<"f", "n", " ", "F", "(", ")", " ", "{", "}">>,
          fns |-> <<[name |-> <<"F">>, row |-> 0]>>,
          nodes |-> <<
            Nd("function_item", 0, 0, 9),
            Nd("fn", 1, 0, 2),
            Nd("identifier", 1, 3, 4),
            Nd("parameters", 1, 4, 6),
            Nd("(", 4, 4, 5),
            Nd(")", 4, 5, 6),
            Nd("block", 1, 7, 9),
            Nd("{", 7, 7, 8),
            Nd("}", 7, 8, 9)
          >> ],
      rsFnG |->   \* fn G() {}
        [ text |-> <<"f", "n", " ", "G", "(", ")", " ", "{", "}">>,
          fns |-> <<[name |-> <<"G">>, row |-> 0]>>,
          nodes |-> <<
            Nd("function_item", 0, 0, 9),
            Nd("fn", 1, 0, 2),
            Nd("identifier", 1, 3, 4),
            Nd("parameters", 1, 4, 6),
            Nd("(", 4, 4, 5),
            Nd(")", 4, 5, 6),
            Nd("block", 1, 7, 9),
            Nd("{", 7, 7, 8),
            Nd("}", 7, 8, 9)
          >> ],
      rsStructF |->   \* struct F {\n  x: G,\n}
        [ text |-> <<"s", "t", "r", "u", "c", "t", " ", "F", " ", "{", "\n", " ", " ", "x", ":", " ", "G", ",", "\n", "}">>,
          fns |-> <<>>,
          nodes |-> <<
            Nd("struct_item", 0, 0, 20),
            Nd("struct", 1, 0, 6),
            Nd("type_identifier", 1, 7, 8),
            Nd("field_declaration_list", 1, 9, 20),
            Nd("{", 4, 9, 10),
            Nd("field_declaration", 4, 13, 17),
            Nd("field_identifier", 6, 13, 14),
            Nd(":", 6, 14, 15),
            Nd("type_identifier", 6, 16, 17),
            Nd(",", 4, 17, 18),
            Nd("}", 4, 19, 20)
          >> ],
      rsUnitG |->   \* struct G;
        [ text |-> <<"s", "t", "r", "u", "c", "t", " ", "G", ";">>,
          fns |-> <<>>,
          nodes |-> <<
            Nd("struct_item", 0, 0, 9),
            Nd("struct", 1, 0, 6),
            Nd("type_identifier", 1, 7, 8),
            Nd(";", 1, 8, 9)
          >> ],
      rsImplF |->   \* impl F { fn F() {} }
        [ text |-> <<"i", "m", "p", "l", " ", "F", " ", "{", " ", "f", "n", " ", "F", "(", ")", " ", "{", "}", " ", "}">>,
          fns |-> <<[name |-> <<"F">>, row |-> 0]>>,
          nodes |-> <<
            Nd("impl_item", 0, 0, 20),
            Nd("impl", 1, 0, 4),
            Nd("type_identifier", 1, 5, 6),
            Nd("declaration_list", 1, 7, 20),
            Nd("{", 4, 7, 8),
            Nd("function_item", 4, 9, 18),
            Nd("fn", 6, 9, 11),
            Nd("identifier", 6, 12, 13),
            Nd("parameters", 6, 13, 15),
            Nd("(", 9, 13, 14),
            Nd(")", 9, 14, 15),
            Nd("block", 6, 16, 18),
            Nd("{", 12, 16, 17),
            Nd("}", 12, 17, 18),
            Nd("}", 4, 19, 20)
          >> ],
      rsTraitF |->   \* trait F {}
        [ text |-> <<"t", "r", "a", "i", "t", " ", "F", " ", "{", "}">>,
          fns |-> <<>>,
          nodes |-> <<
            Nd("trait_item", 0, 0, 10),
            Nd("trait", 1, 0, 5),
            Nd("type_identifier", 1, 6, 7),
            Nd("declaration_list", 1, 8, 10),
            Nd("{", 4, 8, 9),
            Nd("}", 4, 9, 10)
          >> ] ]

\* the text of a file: each statement of its body on a line of its own
RECURSIVE SourceText(_)
SourceText(body) ==
    IF body = <<>> THEN <<>>
    ELSE ParseTable[Head(body)].text \o <<"\n">> \o SourceText(Tail(body))

\* the statements' nodes, moved behind `byte` bytes and `idx` nodes of the file
RECURSIVE StmtNodes(_, _, _)
StmtNodes(body, byte, idx) ==
    IF body = <<>> THEN <<>>
    ELSE LET st == ParseTable[Head(body)]
             moved == [j \in 1..Len(st.nodes) |->
                         Nd(st.nodes[j].kind,
                            IF st.nodes[j].parent = 0 THEN 1
                            ELSE st.nodes[j].parent + idx,
                            st.nodes[j].s + byte, st.nodes[j].e + byte)]
         IN  moved \o StmtNodes(Tail(body), byte + Len(st.text) + 1,
                                idx + Len(st.nodes))

\* parser.parse(content): the root is a program (TypeScript) or a source_file
\* (Rust) over the whole text
Parse(body, lang_type) ==
    [src |-> SourceText(body),
     nodes |-> <<Nd(IF lang_type = "rust" THEN "source_file" ELSE "program",
                    0, 0, Len(SourceText(body)))>> \o StmtNodes(body, 0, 1)]

\* node.children(): the indices of n's children, in order
RECURSIVE KidsFrom(_, _, _)
KidsFrom(t, n, j) ==
    IF j > Len(t.nodes) THEN <<>>
    ELSE (IF t.nodes[j].parent = n THEN <<j>> ELSE <<>>) \o KidsFrom(t, n, j + 1)

Kids(t, n) == KidsFrom(t, n, n + 1)

\* &source[node.start_byte()..node.end_byte()]
NodeText(t, n) == SubSeq(t.src, t.nodes[n].s + 1, t.nodes[n].e)

\* node.start_position(): the 0-based row and the 0-based byte column
StartRow(t, n) == Cardinality({i \in 1..t.nodes[n].s : t.src[i] = "\n"})

StartColumn(t, n) ==
    LET before == {i \in 1..t.nodes[n].s : t.src[i] = "\n"}
    IN  t.nodes[n].s - (IF before = {} THEN 0 ELSE Max(before))

---------------------------------------------------------------------------
(* The file system *)

DirEntry(path) == [path |-> path, dir |-> TRUE, body |-> <<>>]
FileEntry(path, body) == [path |-> path, dir |-> FALSE, body |-> body]

\* Path::exists
path_exists(d, p) ==
    \E i \in 1..Len(d) : Components(d[i].path) = Components(p)

\* fs::read_to_string: the content of a regular file, None for anything else
read_to_string(d, p) ==
    LET hit == {i \in 1..Len(d) :
                  ~d[i].dir /\ Components(d[i].path) = Components(p)}
    IN  IF hit = {} THEN None ELSE Some(d[Min(hit)].body)

\* the language a path's extension selects ("" for none)
LangType(path) ==
    IF EndsWith(path, <<".", "t", "s">>) \/ EndsWith(path, <<".", "t", "s", "x">>)
    THEN "typescript"
    ELSE IF EndsWith(path, <<".", "r", "s">>) THEN "rust" ELSE ""

---------------------------------------------------------------------------
(* get_symbol_info *)

IdentifierKinds == {"identifier", "type_identifier", "property_identifier"}

\* the first child of kind "identifier" of a variable_declarator (0 for none)
FirstOfKind(t, kids, kinds) ==
    LET hit == {k \in 1..Len(kids) : t.nodes[kids[k]].kind \in kinds}
    IN  IF hit = {} THEN 0 ELSE kids[Min(hit)]

RECURSIVE extract_name_from(_, _)
extract_name_from(t, kids) ==
    IF kids = <<>> THEN None
    ELSE LET child == Head(kids)
             child_kind == t.nodes[child].kind
             inner == FirstOfKind(t, Kids(t, child), {"identifier"})
         IN  IF child_kind \in IdentifierKinds THEN Some(NodeText(t, child))
             ELSE IF child_kind = "variable_declarator" /\ inner # 0
                  THEN Some(NodeText(t, inner))
             ELSE extract_name_from(t, Tail(kids))

extract_symbol_name(t, n) == extract_name_from(t, Kids(t, n))

\* the (is_relevant, symbol_kind) table of find_symbol; "" for not relevant
symbol_kind(kind) ==
    CASE kind = "function_declaration" -> "function"
      [] kind = "class_declaration" -> "class"
      [] kind = "interface_declaration" -> "interface"
      [] kind = "method_definition" -> "method"
      [] kind = "function_item" -> "function"
      [] kind = "struct_item" -> "struct"
      [] kind = "trait_item" -> "trait"
      [] kind = "impl_item" -> "impl"
      [] kind \in {"lexical_declaration", "variable_declaration"} -> "variable"
      [] OTHER -> ""

\* node_text.split('{').next().unwrap_or(node_text).trim()
Signature_WholeText(node_text) == Trim(node_text)

Signature(node_text) == Trim(SplitFirst(node_text, "{"))

\* the SymbolInfo find_symbol builds for a matching node
SymbolInfoLine_ZeroBased(t, n) == StartRow(t, n)

SymbolInfoLine(t, n) == StartRow(t, n) + 1

SymbolInfo(t, n, name, file_path) ==
    [name |-> name,
     kind |-> symbol_kind(t.nodes[n].kind),
     signature |-> Signature(NodeText(t, n)),
     line |-> SymbolInfoLine(t, n),
     file |-> file_path]

RECURSIVE find_symbol(_, _, _, _)
RECURSIVE find_symbol_children(_, _, _, _)
find_symbol(t, n, target_symbol, file_path) ==
    LET is_relevant == symbol_kind(t.nodes[n].kind) # ""
        name == IF is_relevant THEN extract_symbol_name(t, n) ELSE None
    IN  IF name = Some(target_symbol)
        THEN Some(SymbolInfo(t, n, target_symbol, file_path))
        ELSE find_symbol_children(t, Kids(t, n), target_symbol, file_path)

find_symbol_children(t, kids, target_symbol, file_path) ==
    IF kids = <<>> THEN None
    ELSE LET result == find_symbol(t, Head(kids), target_symbol, file_path)
         IN  IF result # None THEN result
             ELSE find_symbol_children(t, Tail(kids), target_symbol, file_path)

get_symbol_info(d, file, symbol) ==
    LET content == read_to_string(d, file)
    IN  IF content = None \/ LangType(file) = "" THEN None
        ELSE find_symbol(Parse(content[1], LangType(file)), 1, symbol, file)

---------------------------------------------------------------------------
(* get_imports_exports *)

\* the texts of the nodes of `kids` whose kind is in `kinds`, in order
RECURSIVE TextsOfKind(_, _, _)
TextsOfKind(t, kids, kinds) ==
    IF kids = <<>> THEN <<>>
    ELSE (IF t.nodes[Head(kids)].kind \in kinds
          THEN <<NodeText(t, Head(kids))>> ELSE <<>>)
         \o TextsOfKind(t, Tail(kids), kinds)

\* named_imports: of each import_specifier the first identifier
RECURSIVE named_import_symbols(_, _)
named_import_symbols(t, kids) ==
    IF kids = <<>> THEN <<>>
    ELSE LET first == FirstOfKind(t, Kids(t, Head(kids)), {"identifier"})
         IN  (IF t.nodes[Head(kids)].kind = "import_specifier" /\ first # 0
              THEN <<NodeText(t, first)>> ELSE <<>>)
             \o named_import_symbols(t, Tail(kids))

\* the symbols the children of an import_clause push, in order
RECURSIVE clause_symbols(_, _)
clause_symbols(t, kids) ==
    IF kids = <<>> THEN <<>>
    ELSE LET c == Head(kids)
             k == t.nodes[c].kind
         IN  (CASE k = "identifier" -> <<NodeText(t, c)>>
                [] k = "namespace_import" -> TextsOfKind(t, Kids(t, c), {"identifier"})
                [] k = "named_imports" -> named_import_symbols(t, Kids(t, c))
                [] OTHER -> <<>>)
             \o clause_symbols(t, Tail(kids))

\* the children of every import_clause child of an import_statement, in order
RECURSIVE clause_children(_, _)
clause_children(t, kids) ==
    IF kids = <<>> THEN <<>>
    ELSE (IF t.nodes[Head(kids)].kind = "import_clause"
          THEN Kids(t, Head(kids)) ELSE <<>>)
         \o clause_children(t, Tail(kids))

\* source_path: the last string child, its quotes trimmed ("" without one)
import_source_path(t, n) ==
    LET kids == Kids(t, n)
        strs == {k \in 1..Len(kids) :
                   t.nodes[kids[k]].kind \in {"string", "string_fragment"}}
    IN  IF strs = {} THEN <<>>
        ELSE TrimMatches(NodeText(t, kids[Max(strs)]), {"\"", "'"})

\* if source_path.is_empty() { return None; }
source_is_empty_Ignored(source_path) == FALSE

source_is_empty(source_path) == source_path = <<>>

parse_import_statement(t, n) ==
    LET inner == clause_children(t, Kids(t, n))
        source_path == import_source_path(t, n)
    IN  IF source_is_empty(source_path) THEN None
        ELSE Some([source |-> source_path,
                   symbols |-> clause_symbols(t, inner),
                   is_default |->
                       \E k \in 1..Len(inner) : t.nodes[inner[k]].kind = "identifier",
                   is_namespace |->
                       \E k \in 1..Len(inner) :
                           t.nodes[inner[k]].kind = "namespace_import"])

ExportInfo(name, kind, is_default) ==
    [name |-> name, kind |-> kind, is_default |-> is_default]

\* the push of the function/class/interface arms: one entry, named by the
\* first child whose kind is in `kinds`, none when there is no such child
named_export_KeepsUnnamed(t, decl, kinds, kind, is_default) ==
    LET id == FirstOfKind(t, Kids(t, decl), kinds)
    IN  <<ExportInfo(IF id = 0 THEN <<>> ELSE NodeText(t, id), kind, is_default)>>

named_export(t, decl, kinds, kind, is_default) ==
    LET id == FirstOfKind(t, Kids(t, decl), kinds)
    IN  IF id = 0 THEN <<>> ELSE <<ExportInfo(NodeText(t, id), kind, is_default)>>

\* the lexical_declaration arm: one entry per variable_declarator child that
\* has an identifier child
RECURSIVE declarator_exports_FirstOnly(_, _, _)
declarator_exports_FirstOnly(t, kids, is_default) ==
    IF kids = <<>> THEN <<>>
    ELSE IF t.nodes[Head(kids)].kind = "variable_declarator"
         THEN named_export(t, Head(kids), {"identifier"}, "variable", is_default)
    ELSE declarator_exports_FirstOnly(t, Tail(kids), is_default)

RECURSIVE declarator_exports(_, _, _)
declarator_exports(t, kids, is_default) ==
    IF kids = <<>> THEN <<>>
    ELSE (IF t.nodes[Head(kids)].kind = "variable_declarator"
          THEN named_export(t, Head(kids), {"identifier"}, "variable", is_default)
          ELSE <<>>)
         \o declarator_exports(t, Tail(kids), is_default)

\* the loop over an export_statement's children; is_default is set by a
\* "default" child for the children after it
RECURSIVE export_entries(_, _, _)
export_entries(t, kids, is_default) ==
    IF kids = <<>> THEN <<>>
    ELSE LET c == Head(kids)
             k == t.nodes[c].kind
         IN  IF k = "default" THEN export_entries(t, Tail(kids), TRUE)
             ELSE (CASE k = "function_declaration" ->
                          named_export(t, c, {"identifier", "type_identifier"},
                                       "function", is_default)
                     [] k = "class_declaration" ->
                          named_export(t, c, {"identifier", "type_identifier"},
                                       "class", is_default)
                     [] k = "lexical_declaration" ->
                          declarator_exports(t, Kids(t, c), is_default)
                     [] k = "interface_declaration" ->
                          named_export(t, c, {"type_identifier"}, "interface",
                                       is_default)
                     [] OTHER -> <<>>)
                  \o export_entries(t, Tail(kids), is_default)

parse_export_statement(t, n) == export_entries(t, Kids(t, n), FALSE)

\* the full pre-order walk: every import_statement and export_statement
RECURSIVE extract_imports_exports(_, _)
RECURSIVE extract_from_children(_, _)
extract_imports_exports(t, n) ==
    LET kind == t.nodes[n].kind
        below == extract_from_children(t, Kids(t, n))
    IN  [imports |-> (IF kind = "import_statement"
                      THEN parse_import_statement(t, n) ELSE <<>>) \o below.imports,
         exports |-> (IF kind = "export_statement"
                      THEN parse_export_statement(t, n) ELSE <<>>) \o below.exports]

extract_from_children(t, kids) ==
    IF kids = <<>> THEN [imports |-> <<>>, exports |-> <<>>]
    ELSE LET first == extract_imports_exports(t, Head(kids))
             rest == extract_from_children(t, Tail(kids))
         IN  [imports |-> first.imports \o rest.imports,
              exports |-> first.exports \o rest.exports]

get_imports_exports(d, file) ==
    LET content == read_to_string(d, file)
    IN  IF content = None \/ LangType(file) # "typescript" THEN None
        ELSE Some(extract_imports_exports(Parse(content[1], "typescript"), 1))

---------------------------------------------------------------------------
(* The workspace walker *)

is_hidden(name) ==
    \/ StartsWith(name, <<".">>) /\ name # <<".">>
    \/ name = <<"n", "o", "d", "e", "_", "m", "o", "d", "u", "l", "e", "s">>
    \/ name = <<"t", "a", "r", "g", "e", "t">>
    \/ name = <<"d", "i", "s", "t">>

\* the entries WalkDir::new(root).into_iter().filter_entry(|e| !is_hidden(e))
\* yields: root and what lies below it, without the entries that are hidden or
\* lie below a hidden one; a root that does not exist yields nothing
WalkDir(d, root) ==
    LET below(p) == p = root \/ StartsWith(p, root \o <<"/">>)
        ends(p) == {Len(root), Len(p)}
                   \cup {i - 1 : i \in {j \in Len(root) + 1..Len(p) : p[j] = "/"}}
        kept(e) == /\ below(e.path)
                   /\ \A k \in ends(e.path) : ~is_hidden(FileName(SubSeq(e.path, 1, k)))
    IN  IF ~path_exists(d, root) THEN <<>> ELSE SelectSeq(d, kept)

---------------------------------------------------------------------------
(* generate_repo_map *)

\* is_relevant of walk_tree and walk_and_match
IsSkeletonKind(kind) ==
    kind \in {"function_declaration", "class_declaration", "interface_declaration",
              "method_definition", "function_item", "struct_item", "trait_item",
              "impl_item", "field_declaration"}

\* should_recurse of walk_tree and walk_and_match
IsContainerKind(kind) ==
    kind \in {"program", "source_file", "class_declaration", "impl_item",
              "class_body", "declaration_list", "export_statement", "mod_item",
              "struct_item", "field_declaration_list"}

RECURSIVE walk_tree(_, _, _)
RECURSIVE walk_tree_children(_, _, _)
walk_tree(t, n, depth) ==
    LET kind == t.nodes[n].kind
        is_relevant == IsSkeletonKind(kind)
        line == IF is_relevant
                THEN Indent(depth) \o Signature(NodeText(t, n)) \o <<"\n">>
                ELSE <<>>
    IN  line \o (IF IsContainerKind(kind) \/ depth = 0
                 THEN walk_tree_children(t, Kids(t, n),
                                         IF is_relevant THEN depth + 1 ELSE depth)
                 ELSE <<>>)

walk_tree_children(t, kids, depth) ==
    IF kids = <<>> THEN <<>>
    ELSE walk_tree(t, Head(kids), depth) \o walk_tree_children(t, Tail(kids), depth)

extract_skeleton(content, lang_type) == walk_tree(Parse(content, lang_type), 1, 0)

FileHeader(path) ==
    <<"\n", "-", "-", "-", "\n", "F", "i", "l", "e", ":", " ">> \o path \o <<"\n">>

RECURSIVE repo_map_of(_, _)
repo_map_of(d, entries) ==
    IF entries = <<>> THEN <<>>
    ELSE LET e == Head(entries)
             content == read_to_string(d, e.path)
         IN  (IF ~e.dir /\ LangType(e.path) # "" /\ content # None
              THEN FileHeader(e.path) \o extract_skeleton(content[1], LangType(e.path))
              ELSE <<>>)
             \o repo_map_of(d, Tail(entries))

generate_repo_map(d, path) == repo_map_of(d, WalkDir(d, path))

---------------------------------------------------------------------------
(* The module resolver, resolve_symbol *)

\* resolved.with_extension("ts")
with_ts(resolved) == WithExtension(resolved, <<"t", "s">>)

resolve_import_path(d, from_file, import_source) ==
    LET from_dir == ParentDir(from_file)
        resolved == PathJoin(from_dir, import_source)
        index_path == PathJoin(resolved, <<"i", "n", "d", "e", "x", ".", "t", "s">>)
    IN  IF path_exists(d, resolved) THEN resolved
        ELSE IF path_exists(d, with_ts(resolved)) THEN with_ts(resolved)
        ELSE IF path_exists(d, index_path) THEN index_path
        ELSE resolved

\* !source.starts_with('.') && !source.starts_with('/')
is_external(source) == ~StartsWith(source, <<".">>) /\ ~StartsWith(source, <<"/">>)

SymbolLocation(file, line, kind, external, package) ==
    [file |-> file, line |-> line, column |-> 0, kind |-> kind,
     external |-> external, package |-> package]

\* the location of a declaration find_symbol found
LocalLocation_ImportKind(info) ==
    SymbolLocation(info.file, info.line, "import", FALSE, None)

LocalLocation(info) == SymbolLocation(info.file, info.line, info.kind, FALSE, None)

\* what one import that names the symbol resolves to
import_location(d, import, symbol, file) ==
    LET resolved_path == resolve_import_path(d, file, import.source)
        imported_content == read_to_string(d, resolved_path)
        info == IF imported_content = None THEN None
                ELSE find_symbol(Parse(imported_content[1], "typescript"), 1,
                                 symbol, resolved_path)
    IN  IF is_external(import.source)
        THEN SymbolLocation(<<>>, 0, "import", TRUE, Some(import.source))
        ELSE IF info # None THEN LocalLocation(info[1])
        ELSE SymbolLocation(resolved_path, 0, "import", FALSE, None)

\* import.symbols.contains(&symbol)
\*   || (import.is_namespace && import.symbols.first() == Some(&symbol))
import_names(import, symbol) ==
    \/ \E k \in 1..Len(import.symbols) : import.symbols[k] = symbol
    \/ import.is_namespace /\ import.symbols # <<>> /\ import.symbols[1] = symbol

\* the loop over the imports: the first one that names the symbol returns
RECURSIVE first_import_location(_, _, _, _)
first_import_location(d, imports, symbol, file) ==
    IF imports = <<>> THEN None
    ELSE IF import_names(Head(imports), symbol)
         THEN Some(import_location(d, Head(imports), symbol, file))
    ELSE first_import_location(d, Tail(imports), symbol, file)

\* the order of resolve_symbol's two lookups: the local declaration first
local_then_imports_ImportsFirst(local, imported) ==
    IF imported # None THEN imported
    ELSE IF local # None THEN Some(LocalLocation(local[1])) ELSE None

local_then_imports(local, imported) ==
    IF local # None THEN Some(LocalLocation(local[1])) ELSE imported

resolve_symbol(d, symbol, file) ==
    LET content == read_to_string(d, file)
        tree == Parse(content[1], "typescript")
    IN  IF content = None \/ LangType(file) # "typescript" THEN None
        ELSE local_then_imports(
                 find_symbol(tree, 1, symbol, file),
                 first_import_location(d, extract_imports_exports(tree, 1).imports,
                                       symbol, file))

---------------------------------------------------------------------------
(* find_references *)

DefinitionParents ==
    {"function_declaration", "class_declaration", "interface_declaration",
     "variable_declarator", "method_definition", "property_signature",
     "import_specifier", "export_specifier"}

is_definition_context_AnyName(t, n) ==
    LET parent == t.nodes[n].parent
        first == FirstOfKind(t, Kids(t, parent), IdentifierKinds)
    IN  /\ parent # 0
        /\ t.nodes[parent].kind \in DefinitionParents
        /\ first = n

is_definition_context(t, n) ==
    LET parent == t.nodes[n].parent
        first == FirstOfKind(t, Kids(t, parent), {"identifier", "type_identifier"})
    IN  /\ parent # 0
        /\ t.nodes[parent].kind \in DefinitionParents
        /\ first = n

\* the Reference pushed for a matching identifier node
ReferenceColumn_OneBased(t, n) == StartColumn(t, n) + 1

ReferenceColumn(t, n) == StartColumn(t, n)

Reference(t, n, file_path, lines) ==
    LET line_num == StartRow(t, n)
    IN  [file |-> file_path,
         line |-> line_num + 1,
         column |-> ReferenceColumn(t, n),
         context |-> IF line_num < Len(lines) THEN Trim(lines[line_num + 1]) ELSE <<>>,
         is_definition |-> is_definition_context(t, n)]

RECURSIVE walk_for_references(_, _, _, _, _)
RECURSIVE walk_children_for_references(_, _, _, _, _)
walk_for_references(t, n, file_path, target_symbol, lines) ==
    (IF t.nodes[n].kind \in IdentifierKinds /\ NodeText(t, n) = target_symbol
     THEN <<Reference(t, n, file_path, lines)>> ELSE <<>>)
    \o walk_children_for_references(t, Kids(t, n), file_path, target_symbol, lines)

walk_children_for_references(t, kids, file_path, target_symbol, lines) ==
    IF kids = <<>> THEN <<>>
    ELSE walk_for_references(t, Head(kids), file_path, target_symbol, lines)
         \o walk_children_for_references(t, Tail(kids), file_path, target_symbol, lines)

find_symbol_references(content, file_path, symbol) ==
    LET tree == Parse(content, "typescript")
    IN  walk_for_references(tree, 1, file_path, symbol, Lines(tree.src))

RECURSIVE references_of(_, _, _)
references_of(d, entries, symbol) ==
    IF entries = <<>> THEN <<>>
    ELSE LET e == Head(entries)
             content == read_to_string(d, e.path)
         IN  (IF ~e.dir /\ LangType(e.path) = "typescript" /\ content # None
              THEN find_symbol_references(content[1], e.path, symbol)
              ELSE <<>>)
             \o references_of(d, Tail(entries), symbol)

find_references(d, symbol, path) ==
    IF ~path_exists(d, path) THEN <<>>
    ELSE references_of(d, WalkDir(d, path), symbol)

---------------------------------------------------------------------------
(* build_dependency_graph *)

RECURSIVE export_names(_)
export_names(exports) ==
    IF exports = <<>> THEN <<>>
    ELSE <<Head(exports).name>> \o export_names(Tail(exports))

DependencyEdge(d, file_path, import) ==
    [from |-> file_path,
     to |-> IF is_external(import.source) THEN import.source
            ELSE resolve_import_path(d, file_path, import.source),
     symbols |-> import.symbols,
     external |-> is_external(import.source)]

RECURSIVE import_edges_Deduplicated(_, _, _)
import_edges_Deduplicated(d, file_path, imports) ==
    IF imports = <<>> THEN <<>>
    ELSE LET edge == DependencyEdge(d, file_path, Head(imports))
             rest == import_edges_Deduplicated(d, file_path, Tail(imports))
         IN  IF \E k \in 1..Len(rest) : rest[k] = edge THEN rest
             ELSE <<edge>> \o rest

RECURSIVE import_edges(_, _, _)
import_edges(d, file_path, imports) ==
    IF imports = <<>> THEN <<>>
    ELSE <<DependencyEdge(d, file_path, Head(imports))>>
         \o import_edges(d, file_path, Tail(imports))

RECURSIVE graph_of(_, _)
graph_of(d, entries) ==
    IF entries = <<>> THEN [nodes |-> <<>>, edges |-> <<>>]
    ELSE LET e == Head(entries)
             content == read_to_string(d, e.path)
             ie == extract_imports_exports(Parse(content[1], "typescript"), 1)
             rest == graph_of(d, Tail(entries))
         IN  IF ~e.dir /\ LangType(e.path) = "typescript" /\ content # None
             THEN [nodes |-> <<[file |-> e.path, exports |-> export_names(ie.exports)]>>
                             \o rest.nodes,
                   edges |-> import_edges(d, e.path, ie.imports) \o rest.edges]
             ELSE rest

\* the check of the root before the walk
graph_root_missing_Unchecked(d, path) == FALSE

graph_root_missing(d, path) == ~path_exists(d, path)

build_dependency_graph(d, path) ==
    IF graph_root_missing(d, path) THEN None
    ELSE Some(graph_of(d, WalkDir(d, path)))

---------------------------------------------------------------------------
(* search *)

\* score > 60
Threshold == 60
\* results.truncate(10)
TopK == 10

\* the declarations walk_and_match reaches in a tree, in its order, each as the
\* SearchResult it would push (without the score the matcher gives it)
RECURSIVE walk_and_match(_, _, _)
RECURSIVE walk_and_match_children(_, _, _)
walk_and_match(t, n, file_path) ==
    LET kind == t.nodes[n].kind
    IN  (IF IsSkeletonKind(kind)
         THEN <<[file |-> file_path,
                 line |-> StartRow(t, n) + 1,
                 match_content |-> Signature(NodeText(t, n))]>>
         ELSE <<>>)
        \o (IF IsContainerKind(kind) \/ kind = "program" \/ kind = "source_file"
            THEN walk_and_match_children(t, Kids(t, n), file_path)
            ELSE <<>>)

walk_and_match_children(t, kids, file_path) ==
    IF kids = <<>> THEN <<>>
    ELSE walk_and_match(t, Head(kids), file_path)
         \o walk_and_match_children(t, Tail(kids), file_path)

find_matches(content, lang_type, file_path) ==
    walk_and_match(Parse(content, lang_type), 1, file_path)

\* the declarations the loop over the walker's entries reaches, in order
RECURSIVE matches_of(_, _)
matches_of(d, entries) ==
    IF entries = <<>> THEN <<>>
    ELSE LET e == Head(entries)
             content == read_to_string(d, e.path)
         IN  (IF ~e.dir /\ LangType(e.path) # "" /\ content # None
              THEN find_matches(content[1], LangType(e.path), e.path)
              ELSE <<>>)
             \o matches_of(d, Tail(entries))

\* if let Some(score) = matcher.fuzzy_match(..) { if score > 60 { push } }
passes_threshold_AtLeast(score) == score # None /\ score[1] >= Threshold

passes_threshold(score) == score # None /\ score[1] > Threshold

push_match(vec, m, score) ==
    IF passes_threshold(score)
    THEN Append(vec, [file |-> m.file, line |-> m.line,
                      match_content |-> m.match_content, score |-> score[1]])
    ELSE vec

\* Vec::sort_by(|a, b| b.score.cmp(&a.score)): a stable sort, highest score
\* first; an element is inserted behind those that compare greater or equal
goes_before_Unstable(a, x) == a.score > x.score

goes_before(a, x) == a.score >= x.score

RECURSIVE insert_sorted(_, _)
insert_sorted(sorted, x) ==
    IF sorted = <<>> THEN <<x>>
    ELSE IF goes_before(Head(sorted), x)
         THEN <<Head(sorted)>> \o insert_sorted(Tail(sorted), x)
    ELSE <<x>> \o sorted

RECURSIVE sort_by_score(_, _)
sort_by_score(sorted, vec) ==
    IF vec = <<>> THEN sorted
    ELSE sort_by_score(insert_sorted(sorted, Head(vec)), Tail(vec))

\* Vec::truncate
truncate(vec, len) == IF Len(vec) > len THEN SubSeq(vec, 1, len) ELSE vec

\* what search returns once every file is processed
search_return(vec) == truncate(sort_by_score(<<>>, vec), TopK)

---------------------------------------------------------------------------
(* The workspaces and arguments the model draws its inputs from *)

WsRoot == <<"w", "s">>
FileA == <<"w", "s", "/", "a", ".", "t", "s">>
FileB == <<"w", "s", "/", "b", ".", "t", "s">>
FileM == <<"w", "s", "/", "m", ".", "r", "s">>
FileFooService ==
    <<"w", "s", "/", "f", "o", "o", ".", "s", "e", "r", "v", "i", "c", "e", ".", "t", "s">>
FileFoo == <<"w", "s", "/", "f", "o", "o", ".", "t", "s">>
DirLib == <<"w", "s", "/", "l", "i", "b">>
FileLibIndex == <<"w", "s", "/", "l", "i", "b", "/", "i", "n", "d", "e", "x", ".", "t", "s">>
MissingRoot == <<"n", "o", "p", "e">>
MissingFile == <<"w", "s", "/", "n", "o", "n", "e", ".", "t", "s">>

SeqsUpTo(S, n) == UNION {[1..k -> S] : k \in 0..n}

DeclStmts == {"fnF", "fnG", "clsF", "ifcF", "constF", "destrF", "callF", "ifFn"}
ImportStmts == {"fnF", "impDef", "impNs", "impDefNs", "impNamed", "impDefNamed",
                "impSide", "impEmpty"}
ExportStmts == {"expFn", "expAnonFn", "expAnonCls", "expConst2", "expIfc",
                "expDefCls", "expDefId", "expClause", "expArr"}
RustStmts == {"rsFnF", "rsFnG", "rsStructF", "rsUnitG", "rsImplF", "rsTraitF"}
ResolveStmts == {"fnF", "impDef", "impDot", "impDir", "impDefNamed"}

\* what lies beside ws/a.ts when imports are followed
Targets ==
    { <<>>,
      <<FileEntry(FileB, <<"fnF">>)>>,
      <<FileEntry(FileB, <<"fnG", "constF">>)>>,
      <<FileEntry(FileB, <<"fnG">>)>>,
      <<FileEntry(FileFooService, <<"fnG", "fnF">>)>>,
      <<FileEntry(FileFoo, <<"fnF">>)>>,
      <<FileEntry(FileFoo, <<"fnF">>), FileEntry(FileFooService, <<"fnG", "fnF">>)>>,
      <<DirEntry(DirLib), FileEntry(FileLibIndex, <<"clsF">>)>> }

\* a workspace in which search reaches more declarations than it returns
RankingWorkspace ==
    <<DirEntry(WsRoot),
      FileEntry(FileA, <<"clsF", "fnF", "fnG">>),
      FileEntry(FileB, <<"clsF", "fnG", "expFn">>),
      FileEntry(FileM, <<"rsStructF", "rsImplF">>)>>

\* directory and file names the walker's filter is tried on
WalkedDirNames ==
    {<<".", "g">>,
     <<"n", "o", "d", "e", "_", "m", "o", "d", "u", "l", "e", "s">>,
     <<"t", "a", "r", "g", "e", "t">>,
     <<"d", "i", "s", "t">>,
     <<"d", "i", "s", "t", "s">>,
     <<"s", "u", "b">>}
WalkedFileNames == {<<"x", ".", "t", "s">>, <<".", "e", ".", "t", "s">>}

\* workspaces with one subdirectory beside ws/a.ts, holding one file
WalkerWorkspaces ==
    {<<DirEntry(WsRoot), FileEntry(FileA, <<"fnG">>),
       DirEntry(PathJoin(WsRoot, dn)),
       FileEntry(PathJoin(PathJoin(WsRoot, dn), fn), <<"fnF">>)>> :
        dn \in WalkedDirNames, fn \in WalkedFileNames}

Workspaces ==
         {<<DirEntry(WsRoot), FileEntry(FileA, b)>> :
             b \in SeqsUpTo(DeclStmts, MaxStmts) \cup SeqsUpTo(ImportStmts, MaxStmts)
                   \cup SeqsUpTo(ExportStmts, MaxStmts)}
    \cup {<<DirEntry(WsRoot), FileEntry(FileM, b)>> : b \in SeqsUpTo(RustStmts, MaxStmts)}
    \cup {<<DirEntry(WsRoot), FileEntry(FileA, b)>> \o tg :
             b \in SeqsUpTo(ResolveStmts, MaxStmts), tg \in Targets}
    \cup {RankingWorkspace}
    \cup WalkerWorkspaces

\* the names queried: F and G occur in the sample statements, Z in none
Symbols == {<<"F">>, <<"G">>, <<"Z">>}

\* file arguments: the workspace's first source file, or a file that is missing
FileArgs(d) == {d[2].path, MissingFile}

\* root arguments: a directory of the workspace, or a path that is missing
RootArgs(d) == {d[i].path : i \in {j \in 1..Len(d) : d[j].dir}} \cup {MissingRoot}

Queries == {<<"F">>}

\* the module specifiers resolve_import_path is applied to
Specifiers ==
    {<<".", "/", "b">>,
     <<".", "/", "f", "o", "o", ".", "s", "e", "r", "v", "i", "c", "e">>,
     <<".", "/", "l", "i", "b">>,
     <<".", "/", "n", "o", "n", "e">>}

\* what matcher.fuzzy_match may answer for a declaration: no match, or a
\* score at the threshold or just above it
Scores == {Threshold, Threshold + 1, Threshold + 2}
HighScore == Threshold + 2
ScoreChoices == {None} \cup {Some(s) : s \in Scores}

---------------------------------------------------------------------------
(* The state machine: a query is called on the workspace and returns *)

Init ==
    /\ disk \in Workspaces
    /\ call = [op |-> "none"]
    /\ ret = <<>>
    /\ todo = <<>>
    /\ results = <<>>

Idle == call.op = "none"

GetSymbolInfo ==
    /\ Idle
    /\ \E file \in FileArgs(disk), symbol \in Symbols :
          /\ call' = [op |-> "get_symbol_info", file |-> file, symbol |-> symbol]
          /\ ret' = get_symbol_info(disk, file, symbol)
    /\ UNCHANGED <<disk, todo, results>>

GetImportsExports ==
    /\ Idle
    /\ \E file \in FileArgs(disk) :
          /\ call' = [op |-> "get_imports_exports", file |-> file]
          /\ ret' = get_imports_exports(disk, file)
    /\ UNCHANGED <<disk, todo, results>>

GenerateRepoMap ==
    /\ Idle
    /\ \E path \in RootArgs(disk) :
          /\ call' = [op |-> "generate_repo_map", path |-> path]
          /\ ret' = generate_repo_map(disk, path)
    /\ UNCHANGED <<disk, todo, results>>

ResolveSymbol ==
    /\ Idle
    /\ \E file \in FileArgs(disk), symbol \in Symbols :
          /\ call' = [op |-> "resolve_symbol", symbol |-> symbol, file |-> file]
          /\ ret' = resolve_symbol(disk, symbol, file)
    /\ UNCHANGED <<disk, todo, results>>

FindReferences ==
    /\ Idle
    /\ \E symbol \in Symbols, path \in RootArgs(disk) :
          /\ call' = [op |-> "find_references", symbol |-> symbol, path |-> path]
          /\ ret' = find_references(disk, symbol, path)
    /\ UNCHANGED <<disk, todo, results>>

BuildDependencyGraph ==
    /\ Idle
    /\ \E path \in RootArgs(disk) :
          /\ call' = [op |-> "build_dependency_graph", path |-> path]
          /\ ret' = build_dependency_graph(disk, path)
    /\ UNCHANGED <<disk, todo, results>>

\* the module resolver on its own (it is called by resolve_symbol and
\* build_dependency_graph)
ResolveImportPath ==
    /\ Idle
    /\ \E from_file \in {d \in FileArgs(disk) : d # MissingFile},
          import_source \in Specifiers :
          /\ call' = [op |-> "resolve_import_path", from_file |-> from_file,
                       import_source |-> import_source]
          /\ ret' = resolve_import_path(disk, from_file, import_source)
    /\ UNCHANGED <<disk, todo, results>>

\* search, up to its loop over the files: the declarations the walk reaches
\* wait in todo for the matcher; with none to score search returns at once
SearchBegin ==
    /\ Idle
    /\ \E path \in RootArgs(disk), query \in Queries :
          LET reached == matches_of(disk, WalkDir(disk, path))
          IN  /\ call' = [op |-> IF reached = <<>> THEN "search" ELSE "search_walk",
                           path |-> path, query |-> query, reached |-> Len(reached)]
              /\ todo' = reached
              /\ results' = <<>>
              /\ ret' = search_return(<<>>)
    /\ UNCHANGED disk

\* search scores the next declaration; behind the last one it sorts,
\* truncates and returns
SearchVisit ==
    /\ call.op = "search_walk"
    /\ \E score \in ScoreChoices :
          LET rejected == call.reached - Len(todo) - Len(results)
              high == Cardinality({i \in 1..Len(results) :
                                      results[i].score = HighScore})
              pushed == push_match(results, Head(todo), score)
          IN  /\ ~passes_threshold(score) => rejected < MaxRejected
              /\ score = Some(HighScore) => high < MaxHigh
              /\ results' = pushed
              /\ todo' = Tail(todo)
              /\ IF Tail(todo) = <<>>
                 THEN /\ call' = [call EXCEPT !.op = "search"]
                      /\ ret' = search_return(pushed)
                 ELSE UNCHANGED <<call, ret>>
    /\ UNCHANGED disk

Next ==
    \/ GetSymbolInfo
    \/ ResolveSymbol
    \/ FindReferences
    \/ BuildDependencyGraph
    \/ ResolveImportPath
    \/ SearchBegin
    \/ SearchVisit
    \/ GetImportsExports
    \/ GenerateRepoMap

Spec == Init /\ [][Next]_vars

---------------------------------------------------------------------------
(* search: the threshold, the order and the cut (C1, C2) *)

\* search has returned
Searched == call.op = "search"

\* C1: every result search returns has a score strictly greater than 60, and
\* the returned list is ordered by non-increasing score
C1_AboveThresholdAndSorted ==
    Searched =>
        /\ \A i \in 1..Len(ret) : ret[i].score > 60
        /\ \A i \in 1..Len(ret) - 1 : ret[i].score >= ret[i + 1].score

\* C1 happens: a search in which the matcher rejected a declaration and in
\* which a lower score was found before a higher one returned both, reordered
C1_Witness ==
    /\ Searched
    /\ Len(results) < call.reached
    /\ \E i, j \in 1..Len(results) : i < j /\ results[i].score < results[j].score
    /\ \E i, j \in 1..Len(ret) : i < j /\ ret[i].score > ret[j].score

\* the place in discovery order of a returned result (results holds the
\* qualifying declarations in the order the walk found them)
Discovered(x) == CHOOSE i \in 1..Len(results) : results[i] = x

\* the places in discovery order of the qualifying declarations left out
LeftOut == {i \in 1..Len(results) : \A j \in 1..Len(ret) : ret[j] # results[i]}

\* C2: search returns at most 10 results, the 10 highest-scoring of all the
\* qualifying declarations of the workspace; between equal scores, the cut-off
\* included, the declaration discovered first comes first
C2_TopTenStable ==
    Searched =>
        /\ Len(ret) <= 10
        /\ Len(ret) = Min({10, Len(results)})
        /\ \A j \in 1..Len(ret) : \E i \in 1..Len(results) : results[i] = ret[j]
        /\ \A i \in LeftOut, j \in 1..Len(ret) :
              \/ results[i].score < ret[j].score
              \/ results[i].score = ret[j].score /\ Discovered(ret[j]) < i
        /\ \A j, k \in 1..Len(ret) :
              j < k /\ ret[j].score = ret[k].score
                  => Discovered(ret[j]) < Discovered(ret[k])

\* C2 happens: more than 10 declarations qualified, one of those left out ties
\* with the last one returned, and a declaration discovered after the tenth
\* was returned because it scored higher
C2_Witness ==
    /\ Searched
    /\ Len(results) > 10
    /\ Len(ret) = 10
    /\ \E i \in LeftOut : results[i].score = ret[10].score
    /\ \E j \in 1..Len(ret) : Discovered(ret[j]) > 10

---------------------------------------------------------------------------
(* Signatures (C3) *)

\* the parse tree of a source file of the workspace
FileTree(path) == Parse(read_to_string(disk, path)[1], LangType(path))

\* the source files of the workspace
SourceFiles ==
    {disk[i].path : i \in {j \in 1..Len(disk) : ~disk[j].dir /\ LangType(disk[j].path) # ""}}

\* the text up to, not including, its first '{'; the whole text without one
UpToBrace(text) ==
    LET stop == {i \in 1..Len(text) : text[i] = "{"}
    IN  IF stop = {} THEN text ELSE SubSeq(text, 1, Min(stop) - 1)

\* the declarations (nodes of a kind the skeleton lists) of a parse tree
Declarations(t) == {n \in 1..Len(t.nodes) : IsSkeletonKind(t.nodes[n].kind)}

\* what a declaration of the given text must be shown as
ShownAs(text) ==
    IF \E i \in 1..Len(text) : text[i] = "{" THEN Trim(UpToBrace(text)) ELSE text

\* what the declarations of a parse tree must be shown as
ShownOf(t) == {ShownAs(NodeText(t, n)) : n \in Declarations(t)}

\* the lines of a repo map that are part of a file's header
IsHeaderLine(line) ==
    \/ line = <<>>
    \/ line = <<"-", "-", "-">>
    \/ StartsWith(line, <<"F", "i", "l", "e", ":", " ">>)

\* C3: the signature emitted for a declaration, in the repo map and as a
\* search result's match_content, contains no '{': it is the declaration's
\* text up to its first '{', trimmed, or the whole text when it has no '{'
C3_SignatureWithoutBrace ==
    /\ call.op = "generate_repo_map" =>
          LET rows == Lines(ret)
              shown == UNION {ShownOf(FileTree(path)) : path \in SourceFiles}
          IN  /\ \A i \in 1..Len(ret) : ret[i] # "{"
              /\ \A k \in 1..Len(rows) :
                    \/ IsHeaderLine(rows[k])
                    \/ \E s \in shown : \E depth \in 0..3 :
                          rows[k] = Indent(depth) \o s
    /\ Searched =>
          LET trees == [path \in SourceFiles |-> FileTree(path)]
          IN  \A j \in 1..Len(ret) :
                  /\ \A i \in 1..Len(ret[j].match_content) :
                        ret[j].match_content[i] # "{"
                  /\ \E n \in Declarations(trees[ret[j].file]) :
                        /\ StartRow(trees[ret[j].file], n) + 1 = ret[j].line
                        /\ ret[j].match_content
                               = ShownAs(NodeText(trees[ret[j].file], n))

\* C3 happens: a repo map lists a declaration whose text has a '{', shown cut
\* before it, and one whose text has none, shown whole
C3_Witness ==
    /\ call.op = "generate_repo_map"
    /\ \E path \in SourceFiles :
          LET t == FileTree(path)
              rows == Lines(ret)
          IN  \E n, m \in Declarations(t) :
                  /\ Len(ShownAs(NodeText(t, n))) < Len(NodeText(t, n))
                  /\ ShownAs(NodeText(t, m)) = NodeText(t, m)
                  /\ \E k, l \in 1..Len(rows) : \E depth \in 0..3 :
                        /\ rows[k] = ShownAs(NodeText(t, n))
                        /\ rows[l] = Indent(depth) \o ShownAs(NodeText(t, m))

---------------------------------------------------------------------------
(* Imports (C4) *)

\* get_imports_exports has returned a result for a TypeScript file
ImportsReported == call.op = "get_imports_exports" /\ ret # None

\* C4 as stated (refuted): every import reported has a non-empty source, and
\* every import with is_namespace = true has exactly one element in symbols,
\* also when its clause combines a default identifier with a namespace import
C4_NamespaceHasOneSymbol ==
    ImportsReported =>
        \A k \in 1..Len(ret[1].imports) :
            /\ ret[1].imports[k].source # <<>>
            /\ ret[1].imports[k].is_namespace => Len(ret[1].imports[k].symbols) = 1

\* C4, amended: every import reported has a non-empty source; an import with
\* is_namespace = true has exactly one element in symbols when is_default is
\* false, and exactly two (the default name, then the namespace binding) when
\* its clause combines a default identifier with the namespace import
C4_NamespaceSymbols ==
    ImportsReported =>
        \A k \in 1..Len(ret[1].imports) :
            LET import == ret[1].imports[k]
            IN  /\ import.source # <<>>
                /\ import.is_namespace /\ ~import.is_default
                       => Len(import.symbols) = 1
                /\ import.is_namespace /\ import.is_default
                       => Len(import.symbols) = 2

\* C4 happens: one file's imports hold a plain namespace import and one that
\* combines a default identifier with a namespace import
C4_Witness ==
    /\ ImportsReported
    /\ \E k, l \in 1..Len(ret[1].imports) :
          /\ ret[1].imports[k].is_namespace /\ ~ret[1].imports[k].is_default
          /\ ret[1].imports[l].is_namespace /\ ret[1].imports[l].is_default

---------------------------------------------------------------------------
(* The round trip of a function's line (C5) *)

\* the number of lines the first k statements of a file take
RECURSIVE LinesOfStmts(_, _)
LinesOfStmts(body, k) ==
    IF k = 0 THEN 0
    ELSE LinesOfStmts(body, k - 1)
         + 1 + Cardinality({i \in 1..Len(ParseTable[body[k]].text) :
                               ParseTable[body[k]].text[i] = "\n"})

\* the 1-based lines on which the body of a file declares a function `name`
DeclaredLines(body, name) ==
    UNION {{LinesOfStmts(body, k - 1) + 1 + ParseTable[body[k]].fns[f].row :
               f \in {g \in 1..Len(ParseTable[body[k]].fns) :
                         ParseTable[body[k]].fns[g].name = name}} :
           k \in 1..Len(body)}

\* the file a query was called on is a source file of the workspace
OnSourceFile == call.file \in SourceFiles

\* the lines on which the queried file declares a function of the queried name
QueriedLines == DeclaredLines(read_to_string(disk, call.file)[1], call.symbol)

\* the declarations of a parse tree that the name rule names `symbol`, in
\* source order
NamedLike(t, symbol) ==
    {n \in 1..Len(t.nodes) :
        /\ symbol_kind(t.nodes[n].kind) # ""
        /\ extract_symbol_name(t, n) = Some(symbol)}

\* the first declaration of the queried file named call.symbol is a function
FunctionComesFirst ==
    LET t == FileTree(call.file)
        named == NamedLike(t, call.symbol)
    IN  /\ named # {}
        /\ t.nodes[Min(named)].kind \in {"function_declaration", "function_item"}

---------------------------------------------------------------------------
(* References that are definitions (C6) *)

\* the n characters at the 1-based line and 0-based column of a text
TextAt(rows, line, column, n) ==
    IF line \in 1..Len(rows) /\ column + n <= Len(rows[line])
    THEN SubSeq(rows[line], column + 1, column + n)
    ELSE <<>>

\* the lines of the content of each source file
RowsOfFiles ==
    [path \in SourceFiles |-> Lines(SourceText(read_to_string(disk, path)[1]))]

\* C6: for every Reference with is_definition = true that find_references
\* returns, the text at (line, column) of its file equals the queried symbol
C6_DefinitionTextIsSymbol ==
    call.op = "find_references" /\ ret # <<>> =>
        LET rows == RowsOfFiles
        IN  \A k \in 1..Len(ret) :
                ret[k].is_definition =>
                    TextAt(rows[ret[k].file], ret[k].line, ret[k].column,
                           Len(call.symbol)) = call.symbol

\* C6 happens: a definition was reported below the first line and to the
\* right of the first column, beside a reference that is not a definition
C6_Witness ==
    /\ call.op = "find_references"
    /\ \E k, l \in 1..Len(ret) :
          /\ ret[k].is_definition /\ ret[k].line > 1 /\ ret[k].column > 0
          /\ ~ret[l].is_definition

---------------------------------------------------------------------------
(* Exports (C7) *)

\* the children of a node, read off the parent links
ChildrenOf(t, n) == {c \in 1..Len(t.nodes) : t.nodes[c].parent = n}

\* an export_statement that wraps a declaration without a name: no child is
\* a name or an export clause, no declaration child has a name child, and no
\* declarator of a lexical_declaration child has an identifier child
WrapsUnnamed(t, n) ==
    /\ t.nodes[n].kind = "export_statement"
    /\ \A c \in ChildrenOf(t, n) :
          /\ t.nodes[c].kind \notin {"identifier", "type_identifier", "export_clause"}
          /\ \A g \in ChildrenOf(t, c) :
                IF t.nodes[c].kind = "lexical_declaration"
                THEN \A h \in ChildrenOf(t, g) : t.nodes[h].kind # "identifier"
                ELSE t.nodes[g].kind \notin {"identifier", "type_identifier"}

\* C7: every export reported has a non-empty name and a kind among function,
\* class, variable and interface; an export statement whose declaration has
\* no name (an anonymous default function or class) produces no entry
C7_ExportsNamedAndKinded ==
    ImportsReported =>
        /\ \A k \in 1..Len(ret[1].exports) :
              /\ ret[1].exports[k].name # <<>>
              /\ ret[1].exports[k].kind \in {"function", "class", "variable", "interface"}
        /\ LET t == FileTree(call.file)
           IN  (\A n \in 1..Len(t.nodes) :
                   t.nodes[n].kind = "export_statement" => WrapsUnnamed(t, n))
                  => ret[1].exports = <<>>

\* C7 happens: a file whose export statements wrap an anonymous default
\* function and an anonymous default class was queried and reported no export
C7_Witness ==
    /\ ImportsReported
    /\ ret[1].exports = <<>>
    /\ LET t == FileTree(call.file)
       IN  \E n, m \in 1..Len(t.nodes) :
              /\ t.nodes[n].kind = "function_expression"
              /\ t.nodes[m].kind = "class"
              /\ WrapsUnnamed(t, t.nodes[n].parent)
              /\ WrapsUnnamed(t, t.nodes[m].parent)

---------------------------------------------------------------------------
(* Inputs that are missing (C8) *)

\* the places, among the imports of a file, of those that name `symbol`
Naming(imports, symbol) ==
    {k \in 1..Len(imports) :
        \E s \in 1..Len(imports[k].symbols) : imports[k].symbols[s] = symbol}

\* the queried file declares nothing of the queried name, and imports nothing
\* of that name
SymbolNotFound ==
    LET t == FileTree(call.file)
    IN  /\ NamedLike(t, call.symbol) = {}
        /\ Naming(extract_imports_exports(t, 1).imports, call.symbol) = {}

\* C8: with a root that does not exist build_dependency_graph returns null
\* and find_references an empty list, with a root that exists the graph is
\* not null; get_imports_exports of a file that is not .ts or .tsx returns
\* null; get_symbol_info and resolve_symbol return null when the symbol is not
\* found (no declaration of the file has the name and, for resolve_symbol, no
\* import names it)
C8_MissingInputs ==
    /\ call.op = "build_dependency_graph" =>
          (ret = None <=> ~path_exists(disk, call.path))
    /\ call.op = "find_references" /\ ~path_exists(disk, call.path) => ret = <<>>
    /\ call.op = "get_imports_exports" /\ LangType(call.file) # "typescript" =>
          ret = None
    /\ call.op = "get_symbol_info" /\ OnSourceFile
       /\ NamedLike(FileTree(call.file), call.symbol) = {} =>
          ret = None
    /\ call.op = "resolve_symbol" /\ OnSourceFile /\ SymbolNotFound => ret = None

\* C8 happens: build_dependency_graph was called on a root that does not
\* exist, in a workspace that holds a TypeScript file, and returned null
C8_Witness ==
    /\ call.op = "build_dependency_graph"
    /\ ~path_exists(disk, call.path)
    /\ \E path \in SourceFiles : LangType(path) = "typescript"
    /\ ret = None

---------------------------------------------------------------------------
(* resolve_symbol (C9) *)

\* the record of a declaration found in a file
FoundIn(path, t, n) ==
    <<[file |-> path, line |-> StartRow(t, n) + 1, column |-> 0,
       kind |-> symbol_kind(t.nodes[n].kind), external |-> FALSE,
       package |-> <<>>]>>

\* what following an import that names the symbol must give
Followed(import) ==
    LET target == resolve_import_path(disk, call.file, import.source)
        content == read_to_string(disk, target)
        t == Parse(content[1], "typescript")
        named == IF content = None THEN {} ELSE NamedLike(t, call.symbol)
    IN  IF import.source[1] \notin {".", "/"}
        THEN <<[file |-> <<>>, line |-> 0, column |-> 0, kind |-> "import",
                external |-> TRUE, package |-> <<import.source>>]>>
        ELSE IF named # {} THEN FoundIn(target, t, Min(named))
        ELSE <<[file |-> target, line |-> 0, column |-> 0, kind |-> "import",
                external |-> FALSE, package |-> <<>>]>>

---------------------------------------------------------------------------
(* The module resolver (C10) *)

\* dir / specifier
Candidate == PathJoin(ParentDir(call.from_file), call.import_source)

\* C10 as stated (refuted by the code): the resolver returns the candidate
\* dir/specifier when it exists, else the candidate with ".ts" appended when
\* that exists (also when the specifier's last segment already holds a dot),
\* else candidate/index.ts when that exists, else the unresolved candidate
C10_AppendsTs ==
    call.op = "resolve_import_path" =>
        ret = IF path_exists(disk, Candidate) THEN Candidate
              ELSE IF path_exists(disk, Candidate \o <<".", "t", "s">>)
                   THEN Candidate \o <<".", "t", "s">>
              ELSE IF path_exists(disk, PathJoin(Candidate,
                                     <<"i", "n", "d", "e", "x", ".", "t", "s">>))
                   THEN PathJoin(Candidate, <<"i", "n", "d", "e", "x", ".", "t", "s">>)
              ELSE Candidate

\* C10's failing input happens: "./foo.service" was resolved beside
\* foo.service.ts and the resolver did not return that file
C10_Witness ==
    /\ call.op = "resolve_import_path"
    /\ ~path_exists(disk, Candidate)
    /\ path_exists(disk, Candidate \o <<".", "t", "s">>)
    /\ ret # Candidate \o <<".", "t", "s">>

---------------------------------------------------------------------------
(* build_dependency_graph (C11) *)

\* the paths of the TypeScript files the walker yields below a root, in its
\* order
WalkedTsFiles(root) ==
    LET entries == SelectSeq(WalkDir(disk, root),
                             LAMBDA e : ~e.dir /\ LangType(e.path) = "typescript")
    IN  [i \in 1..Len(entries) |-> entries[i].path]

\* the number of imports reported for the first k of a sequence of files
RECURSIVE ImportsUpTo(_, _, _)
ImportsUpTo(ie, files, k) ==
    IF k = 0 THEN 0
    ELSE ImportsUpTo(ie, files, k - 1) + Len(ie[files[k]].imports)

\* C11: build_dependency_graph emits exactly one node per readable TypeScript
\* file the walker visits, carrying that file's exported names, and exactly
\* one edge per import of that file, without deduplication; every edge's from
\* is the file of some node; an edge is external iff its specifier starts with
\* neither '.' nor '/', its to is then the raw specifier, otherwise the path
\* the module resolver gives
C11_GraphNodesAndEdges ==
    call.op = "build_dependency_graph" /\ ret # None =>
        LET files == WalkedTsFiles(call.path)
            ie == [f \in {files[i] : i \in 1..Len(files)} |->
                      get_imports_exports(disk, f)[1]]
            nodes == ret[1].nodes
            edges == ret[1].edges
        IN  /\ Len(nodes) = Len(files)
            /\ \A i \in 1..Len(files) :
                  /\ nodes[i].file = files[i]
                  /\ nodes[i].exports
                         = [k \in 1..Len(ie[files[i]].exports) |->
                               ie[files[i]].exports[k].name]
            /\ Len(edges) = ImportsUpTo(ie, files, Len(files))
            /\ \A i \in 1..Len(files) : \A k \in 1..Len(ie[files[i]].imports) :
                  LET import == ie[files[i]].imports[k]
                      edge == edges[ImportsUpTo(ie, files, i - 1) + k]
                  IN  /\ edge.from = files[i]
                      /\ edge.symbols = import.symbols
                      /\ edge.external <=> import.source[1] \notin {".", "/"}
                      /\ edge.to = IF import.source[1] \notin {".", "/"}
                                   THEN import.source
                                   ELSE resolve_import_path(disk, files[i],
                                                            import.source)
            /\ \A e \in 1..Len(edges) :
                  \E n \in 1..Len(nodes) : nodes[n].file = edges[e].from

\* C11 happens: a graph of two files holds the same edge twice, an import the
\* module resolver resolved to a file on disk
C11_Witness ==
    /\ call.op = "build_dependency_graph"
    /\ ret # None
    /\ Len(ret[1].nodes) >= 2
    /\ \E i, j \in 1..Len(ret[1].edges) :
          /\ i < j
          /\ ret[1].edges[i] = ret[1].edges[j]
          /\ ~ret[1].edges[i].external
          /\ path_exists(disk, ret[1].edges[i].to)

---------------------------------------------------------------------------
(* The workspace walker (C12) *)

\* the basenames the walker is said to prune directories by
SaidPruned(name) ==
    \/ name # <<>> /\ name[1] = "." /\ name # <<".">>
    \/ name \in {<<"n", "o", "d", "e", "_", "m", "o", "d", "u", "l", "e", "s">>,
                 <<"t", "a", "r", "g", "e", "t">>, <<"d", "i", "s", "t">>}

\* the directories that lie strictly between a root and a path below it
DirsBetween(root, path) ==
    {SubSeq(path, 1, i - 1) : i \in {j \in Len(root) + 2..Len(path) : path[j] = "/"}}

\* the source files said to be processed by a batch query on a root: those
\* below it that lie under no pruned directory, whatever their own name and
\* whatever the root's name
SaidProcessed(root) ==
    {disk[i].path : i \in {j \in 1..Len(disk) :
        /\ ~disk[j].dir
        /\ LangType(disk[j].path) # ""
        /\ StartsWith(disk[j].path, root \o <<"/">>)
        /\ \A dir \in DirsBetween(root, disk[j].path) : ~SaidPruned(FileName(dir))}}

\* the files a repo map has a header for
FilesInRepoMap ==
    LET rows == Lines(ret)
    IN  {SubSeq(rows[k], 7, Len(rows[k])) :
            k \in {l \in 1..Len(rows) :
                      StartsWith(rows[l], <<"F", "i", "l", "e", ":", " ">>)}}

\* C12 as stated (refuted by the code): the walker prunes a directory, with
\* its subtree, iff its basename starts with '.' (other than ".") or is
\* node_modules, target or dist; a .ts, .tsx or .rs file under no pruned
\* directory is processed by every batch query whatever its own basename,
\* and the root the caller passes is processed whatever its name
C12_OnlyDirectoriesPruned ==
    /\ call.op = "generate_repo_map" /\ path_exists(disk, call.path) =>
          FilesInRepoMap = SaidProcessed(call.path)
    /\ call.op = "build_dependency_graph" /\ ret # None =>
          {ret[1].nodes[n].file : n \in 1..Len(ret[1].nodes)}
              = {f \in SaidProcessed(call.path) : LangType(f) = "typescript"}

\* C12's failing input happens: a repo map was asked of a root directory
\* named dist that holds a TypeScript file with a plain name, and is empty
C12_Witness ==
    /\ call.op = "generate_repo_map"
    /\ path_exists(disk, call.path)
    /\ FileName(call.path) = <<"d", "i", "s", "t">>
    /\ \E f \in SaidProcessed(call.path) : FileName(f) = <<"x", ".", "t", "s">>
    /\ ret = <<>>

---------------------------------------------------------------------------
(* The two tree walks (C13) *)

\* the source files the walker yields below a root
WalkedSourceFiles(root) ==
    LET entries == WalkDir(disk, root)
    IN  {entries[i].path :
            i \in {j \in 1..Len(entries) :
                      ~entries[j].dir /\ LangType(entries[j].path) # ""}}

\* the signatures the skeleton walk emits for a file, in its order
SkeletonSignatures(path) ==
    LET rows == Lines(extract_skeleton(read_to_string(disk, path)[1], LangType(path)))
    IN  [k \in 1..Len(rows) |-> Trim(rows[k])]

\* the signatures of the declarations the search walk reached in a file, in
\* its order
SearchSignatures(path) ==
    LET hits == SelectSeq(todo, LAMBDA m : m.file = path)
    IN  [k \in 1..Len(hits) |-> hits[k].match_content]

\* search has walked the files and has not yet scored a declaration
SearchWalked == call.op \in {"search_walk", "search"} /\ Len(todo) = call.reached

\* C13 as stated (refuted by the code): search scores exactly the
\* declarations the skeleton traversal emits, in the same order, for every file
\* and parse tree, also those nested under top-level nodes that are neither
\* declarations nor containers (a function declared inside a top-level if)
C13_SearchWalkIsSkeletonWalk ==
    SearchWalked =>
        \A path \in WalkedSourceFiles(call.path) :
            SearchSignatures(path) = SkeletonSignatures(path)

\* C13's failing input happens: search reached no declaration in a file for
\* which the skeleton walk emits a function
C13_Witness ==
    /\ SearchWalked
    /\ call.reached = 0
    /\ \E path \in WalkedSourceFiles(call.path) :
          /\ SkeletonSignatures(path) # <<>>
          /\ StartsWith(SkeletonSignatures(path)[1],
                        <<"f", "u", "n", "c", "t", "i", "o", "n", " ", "F">>)

---------------------------------------------------------------------------
(* Exported variables (C14) *)

\* the lexical_declaration nodes an export_statement wraps, in source order
ExportedLexicals(t) ==
    {n \in 1..Len(t.nodes) :
        /\ t.nodes[n].kind = "lexical_declaration"
        /\ t.nodes[n].parent # 0
        /\ t.nodes[t.nodes[n].parent].kind = "export_statement"}

\* the variable_declarator children of a node that have an identifier child
NamedDeclarators(t, n) ==
    {c \in ChildrenOf(t, n) :
        /\ t.nodes[c].kind = "variable_declarator"
        /\ \E g \in ChildrenOf(t, c) : t.nodes[g].kind = "identifier"}

\* the name of a declarator: the text of its first identifier child
DeclaratorName(t, c) ==
    NodeText(t, Min({g \in ChildrenOf(t, c) : t.nodes[g].kind = "identifier"}))

\* the set S of numbers as the sequence of its elements in ascending order
RECURSIVE Ascending(_)
Ascending(S) == IF S = {} THEN <<>> ELSE <<Min(S)>> \o Ascending(S \ {Min(S)})

\* the exports of kind variable that were reported, in order
VariableExports == SelectSeq(ret[1].exports, LAMBDA e : e.kind = "variable")

\* C14 as stated (refuted): an export statement wrapping a lexical_declaration
\* yields a single export of kind variable, named by the identifier of the
\* first variable_declarator; further declarators add no entries
C14_OneExportPerStatement ==
    ImportsReported =>
        LET t == FileTree(call.file)
            stmts == Ascending(ExportedLexicals(t))
        IN  /\ Len(VariableExports) <= Len(stmts)
            /\ \A k \in 1..Len(VariableExports) :
                  \E i \in 1..Len(stmts) :
                      /\ NamedDeclarators(t, stmts[i]) # {}
                      /\ VariableExports[k].name
                             = DeclaratorName(t, Min(NamedDeclarators(t, stmts[i])))

\* C14, amended: an export statement wrapping a lexical_declaration yields
\* one export of kind variable for every variable_declarator of it that has
\* an identifier child, named by that declarator's first identifier, in source
\* order (export const a = 1, b = 2 yields a and b)
C14_OneExportPerDeclarator ==
    ImportsReported =>
        LET t == FileTree(call.file)
            decls == Ascending(UNION {NamedDeclarators(t, n) : n \in ExportedLexicals(t)})
        IN  /\ Len(VariableExports) = Len(decls)
            /\ \A k \in 1..Len(decls) :
                  VariableExports[k].name = DeclaratorName(t, decls[k])

\* C14 happens: a file with one export statement of two declarators was
\* queried and two exports of kind variable, of different names, were reported
C14_Witness ==
    /\ ImportsReported
    /\ Cardinality(ExportedLexicals(FileTree(call.file))) = 1
    /\ Len(VariableExports) = 2
    /\ VariableExports[1].name # VariableExports[2].name

---------------------------------------------------------------------------
(* find_references (C15) *)

\* the nodes of a parse tree that are names with the text `symbol`
NameNodes(t, symbol) ==
    {n \in 1..Len(t.nodes) :
        /\ t.nodes[n].kind \in {"identifier", "type_identifier", "property_identifier"}
        /\ NodeText(t, n) = symbol}

\* the first-child rule: the parent of the node is of a defining kind and the
\* node is the first identifier or type_identifier child of that parent
FirstNameOfDefiningParent(t, n) ==
    LET parent == t.nodes[n].parent
        names == {c \in ChildrenOf(t, parent) :
                     t.nodes[c].kind \in {"identifier", "type_identifier"}}
    IN  /\ parent # 0
        /\ t.nodes[parent].kind \in
               {"function_declaration", "class_declaration", "interface_declaration",
                "variable_declarator", "method_definition", "property_signature",
                "import_specifier", "export_specifier"}
        /\ names # {}
        /\ n = Min(names)

\* C15: find_references emits one Reference, in pre-order and without
\* deduplication, for every identifier, type_identifier or property_identifier
\* node whose text equals the name; is_definition is true iff the node's parent
\* is of a defining kind and the node is that parent's first identifier or
\* type_identifier child, so a property_identifier is never a definition and
\* the initializer of `const {a} = x` is judged by the same rule
C15_OneReferencePerNameNode ==
    call.op = "find_references" /\ path_exists(disk, call.path) =>
        LET files == WalkedTsFiles(call.path)
            place(f) == CHOOSE i \in 1..Len(files) : files[i] = f
        IN  /\ \A k \in 1..Len(ret) : \E i \in 1..Len(files) : files[i] = ret[k].file
            /\ \A k, l \in 1..Len(ret) :
                  k < l => place(ret[k].file) <= place(ret[l].file)
            /\ \A i \in 1..Len(files) :
                  LET t == FileTree(files[i])
                      nodes == Ascending(NameNodes(t, call.symbol))
                      refs == SelectSeq(ret, LAMBDA r : r.file = files[i])
                  IN  /\ Len(refs) = Len(nodes)
                      /\ \A k \in 1..Len(nodes) :
                            /\ refs[k].line = StartRow(t, nodes[k]) + 1
                            /\ refs[k].column = StartColumn(t, nodes[k])
                            /\ refs[k].is_definition
                                   <=> FirstNameOfDefiningParent(t, nodes[k])
                            /\ t.nodes[nodes[k]].kind = "property_identifier"
                                   => ~refs[k].is_definition

\* C15 happens: the references of a file hold the initializer of
\* `const {a} = F;`, reported as a definition, and the name of a method F,
\* a property_identifier, reported as no definition
C15_Witness ==
    /\ call.op = "find_references"
    /\ \E k, l \in 1..Len(ret) :
          /\ ret[k].is_definition
          /\ ret[k].context
                 = <<"c", "o", "n", "s", "t", " ", "{", "a", "}", " ", "=", " ", "F", ";">>
          /\ ~ret[l].is_definition
          /\ ret[l].context = <<"F", "(", ")", " ", "{", "}">>

---------------------------------------------------------------------------
(* The shape of a SymbolLocation (C16) *)

\* C16: every location resolve_symbol returns has column = 0; external is
\* true iff package is present iff file is the empty string; line = 0 iff
\* kind = "import", and a location with line >= 1 carries a declaration kind
\* and external = false
C16_LocationShape ==
    call.op = "resolve_symbol" /\ ret # None =>
        /\ ret[1].column = 0
        /\ ret[1].external <=> ret[1].package # <<>>
        /\ ret[1].external <=> ret[1].file = <<>>
        /\ ret[1].line = 0 <=> ret[1].kind = "import"
        /\ ret[1].line >= 1 =>
              /\ ret[1].kind \in {"function", "class", "interface", "method",
                                  "variable", "struct", "trait", "impl"}
              /\ ret[1].external = FALSE

\* C16 happens: resolve_symbol returned the bare record of a relative import
\* whose target does not declare the symbol
C16_Witness ==
    /\ call.op = "resolve_symbol"
    /\ ret # None
    /\ ret[1].line = 0
    /\ ret[1].kind = "import"
    /\ ~ret[1].external
    /\ ret[1].file # <<>>
    /\ path_exists(disk, ret[1].file)

===========================================================================
